---- MODULE Spec2Model ----
(***************************************************************************)
(* Stripe failed-payments monitor (src/index.js): an Express application   *)
(* with a capped in-memory log buffer and the handlers GET /logs,          *)
(* POST /test and POST /webhook.                                           *)
(*                                                                         *)
(* Execution model: Node runs one job at a time.  An async function runs    *)
(* from its call, or from the settling of the promise it awaits, up to its *)
(* next await or its return; each such job is one action, and the caller   *)
(* suspended at `await f()` resumes in a later job of its own, so jobs of   *)
(* other requests run in between.  The outbound calls (Stripe SDK, mail    *)
(* transport,                                                              *)
(* Airtable) are the environment: their outcome is chosen by \E, and a     *)
(* call may also never return (Hang).  A failing call rejects with an      *)
(* Error carrying a message string, as the three client libraries do, and  *)
(* provider objects carry amount and currency.  The routes GET /,          *)
(* GET /health and GET /webhook/info touch no state and are left out.      *)
(***************************************************************************)
EXTENDS Integers, Sequences, FiniteSets, TLC

\* ------------------------------------------------------------- bounds
\* number of request slots: the handlers of the requests on different slots
\* interleave at their awaits; Spec serves one request per slot
MaxReq == 2
\* SpecLog starts requests while fewer than MaxAppends entries were appended
MaxAppends == 150
\* SpecLog's burst of other requests arrives BurstBefore appends short of
\* the cap
BurstBefore == 4

\* ------------------------------------------------------------- constants
\* index.js:38  if (logs.length > 100) logs = logs.slice(-100)
LogCap == 100
\* index.js:193  logs.slice(-50)
LogsPage == 50

Slots == 1..MaxReq

VARIABLES
  proc,       \* the process: "loading", "crashed", "loaded" or "listening"
  logs,       \* index.js:28  let logs = []
  appended,   \* ghost: number of addLog calls so far; also the clock behind Date
  rq          \* per slot: the request being served and what was observed of it

vars == <<proc, logs, appended, rq>>

Min(a, b) == IF a < b THEN a ELSE b
Max(a, b) == IF a > b THEN a ELSE b

\* Array.prototype.slice(-k): the last k elements (all of them when fewer)
SliceLast(s, k) == SubSeq(s, Max(1, Len(s) - k + 1), Len(s))

\* ------------------------------------------------------------- log buffer
\* The buffer with its append count: [buf |-> logs, n |-> appended].

\* faulty variant: keeps the oldest 100 entries instead of the newest
addLog_keepOldest(L, message, level) ==
  LET e == [timestamp |-> L.n + 1, level |-> level, message |-> message]
      pushed == Append(L.buf, e)
  IN [buf |-> IF Len(pushed) > LogCap THEN SubSeq(pushed, 1, LogCap) ELSE pushed,
      n |-> L.n + 1]

addLog(L, message, level) ==
  LET e == [timestamp |-> L.n + 1, level |-> level, message |-> message]
      pushed == Append(L.buf, e)
  IN [buf |-> IF Len(pushed) > LogCap THEN SliceLast(pushed, LogCap) ELSE pushed,
      n |-> L.n + 1]

\* a run of addLog calls, each <<message, level>>, in order
RECURSIVE addLogs(_, _)
addLogs(L, calls) ==
  IF calls = <<>> THEN L
  ELSE addLogs(addLog(L, calls[1][1], calls[1][2]), Tail(calls))

Info(m) == <<m, "info">>
Warn(m) == <<m, "warn">>
Err(m) == <<m, "error">>

RECURSIVE CountLevel(_, _)
CountLevel(calls, level) ==
  IF calls = <<>> THEN 0
  ELSE (IF calls[1][2] = level THEN 1 ELSE 0) + CountLevel(Tail(calls), level)

\* ------------------------------------------------------------- requests
IdleReq ==
  [kind |-> "none", pc |-> "idle",
   ctype |-> "none", body |-> "none",
   verified |-> FALSE, evtype |-> "none",
   customerEmail |-> "absent",
   status |-> 0, rbody |-> "none", nresp |-> 0,
   trace |-> <<>>, mailArg |-> "none", storeArg |-> "none",
   nlog |-> [info |-> 0, warn |-> 0, error |-> 0],
   hung |-> FALSE,
   rlogs |-> <<>>, rtotal |-> 0, cum |-> 0, buflen |-> 0]

\* The process starts loading index.js.  logs and the slots cannot be
\* observed before the module has loaded; they are given their first values.
Init ==
  /\ proc = "loading"
  /\ logs = <<>>
  /\ appended = 0
  /\ rq = [r \in Slots |-> IdleReq]

\* ------------------------------------------------------------- middleware
\* A request as the body parsers see it: content type, req.body, req._body.
NewRequest(ctype) == [ctype |-> ctype, body |-> "undefined", parsed |-> FALSE]

\* index.js:24  app.use(express.json()): a request with a JSON content type
\* has its stream read and req.body set to the parsed object; other requests
\* pass through untouched.
jsonParser(req) ==
  IF req.parsed THEN req
  ELSE IF req.ctype = "application/json"
       THEN [req EXCEPT !.body = "object", !.parsed = TRUE]
       ELSE req

\* index.js:25  app.use('/webhook', bodyParser.raw({type: 'application/json'})):
\* skips a request whose body was already parsed; otherwise a JSON content
\* type gets req.body set to the raw Buffer.
rawParser(req) ==
  IF req.parsed THEN req
  ELSE IF req.ctype = "application/json"
       THEN [req EXCEPT !.body = "buffer", !.parsed = TRUE]
       ELSE req

\* middleware runs in registration order before the /webhook route handler
webhookMiddleware(req) == rawParser(jsonParser(req))

\* Stripe delivers its events as application/json, the content type both
\* body parsers are set to; the route handler itself never looks at it
ContentTypes == {"application/json"}

\* ------------------------------------------------------------- handler steps
\* Each operator below is a stretch of handler code.  It yields
\* [q |-> the slot's record afterwards, calls |-> the addLog calls it made].

Call(q, op, pc) == [q EXCEPT !.trace = Append(@, <<op, "call">>), !.pc = pc]
\* res: "ok", "fail", or for create also "fail_NOT_FOUND"
Returned(q, op, res) == [q EXCEPT !.trace = Append(@, <<op, res>>)]

InTraceOf(trace, ev) == \E i \in 1..Len(trace) : trace[i] = ev

\* res.json(..) / res.status(..).send(..): the response leaves
respond(q, status, rbody) ==
  [q EXCEPT !.status = status, !.rbody = rbody, !.nresp = @ + 1, !.pc = "done"]

\* index.js:42-62  sendEmailAlert up to its await: sendMail is issued
sendEmailAlert_begin(q) ==
  [Call(q, "sendMail", "await_mail") EXCEPT !.mailArg = q.customerEmail]

\* faulty variant: the catch of sendEmailAlert rethrows
sendEmailAlert_rethrow(ok) ==
  IF ok THEN [calls |-> <<Info("Email alert sent successfully")>>, threw |-> FALSE]
  ELSE [calls |-> <<Err("Failed to send email alert")>>, threw |-> TRUE]

\* index.js:62-66  sendEmailAlert after sendMail settled
sendEmailAlert_end(ok) ==
  IF ok THEN [calls |-> <<Info("Email alert sent successfully")>>, threw |-> FALSE]
  ELSE [calls |-> <<Err("Failed to send email alert")>>, threw |-> FALSE]

\* index.js:70-84  logToAirtable up to its await: create is issued
logToAirtable_begin(q) ==
  [Call(q, "create", "await_store") EXCEPT !.storeArg = q.customerEmail]

\* index.js:89-98  the table-setup guidance
AirtableGuidance ==
  << Warn("Please create a \"Failed Payments\" table"),
     Warn("- Payment ID (Single line text)"),
     Warn("- Customer Email (Email)"),
     Warn("- Customer ID (Single line text)"),
     Warn("- Amount (Number)"),
     Warn("- Currency (Single line text)"),
     Warn("- Failure Reason (Long text)"),
     Warn("- Timestamp (Date)"),
     Warn("- Status (Single select: Failed)"),
     Warn("- Alert Sent (Single select: Yes, No)") >>

StoreOutcomes == {"ok", "fail", "fail_NOT_FOUND"}

\* faulty variant: the catch block of logToAirtable lets the error out again
logToAirtable_rethrow(outcome) ==
  IF outcome = "ok"
  THEN [calls |-> <<Info("Payment failure logged to Airtable")>>, threw |-> FALSE]
  ELSE [calls |-> <<Err("Failed to log to Airtable")>>, threw |-> TRUE]

\* index.js:84-100  logToAirtable after create settled
logToAirtable_end(outcome) ==
  CASE outcome = "ok" ->
         [calls |-> <<Info("Payment failure logged to Airtable")>>, threw |-> FALSE]
    [] outcome = "fail" ->
         [calls |-> <<Err("Failed to log to Airtable")>>, threw |-> FALSE]
    [] outcome = "fail_NOT_FOUND" ->
         [calls |-> <<Err("Failed to log to Airtable")>> \o AirtableGuidance,
          threw |-> FALSE]

\* index.js:125-128  processFailedPayment from its 'Processing' log on
processFailedPayment_notify(q) ==
  [q |-> sendEmailAlert_begin(q), calls |-> <<Info("Processing failed payment")>>]

\* index.js:104-123  processFailedPayment up to its first await
processFailedPayment_begin(q, hasCustomer) ==
  LET q0 == [q EXCEPT !.customerEmail = "absent"]
  IN IF hasCustomer
     THEN [q |-> Call(q0, "customers.retrieve", "await_customer"), calls |-> <<>>]
     ELSE processFailedPayment_notify(q0)

CustomerOutcomes == {"email", "no_email", "fail"}

\* faulty variant: a failed customer lookup aborts the processing
processFailedPayment_lookupAborts(q, outcome) ==
  LET q1 == Returned(q, "customers.retrieve", IF outcome = "fail" THEN "fail" ELSE "ok")
  IN IF outcome = "fail"
     THEN [q |-> [q1 EXCEPT !.pc = "process_thrown"],
           calls |-> <<Warn("Could not retrieve customer email")>>]
     ELSE processFailedPayment_notify(
            [q1 EXCEPT !.customerEmail = IF outcome = "email" THEN "present" ELSE "absent"])

\* index.js:117-128  processFailedPayment after customers.retrieve settled
processFailedPayment_lookup(q, outcome) ==
  LET q1 == Returned(q, "customers.retrieve", IF outcome = "fail" THEN "fail" ELSE "ok")
  IN IF outcome = "fail"
     THEN LET n == processFailedPayment_notify(q1)
          IN [q |-> n.q,
              calls |-> <<Warn("Could not retrieve customer email")>> \o n.calls]
     ELSE processFailedPayment_notify(
            [q1 EXCEPT !.customerEmail = IF outcome = "email" THEN "present" ELSE "absent"])

\* index.js:1  the installed express package.  Version 4 drops the promise an
\* async route handler returns; version 5 hands its rejection to the default
\* error handler.  Neither version is fixed by the source.
ExpressBuilds == {"express4", "express5"}

\* An exception leaves an async route handler that has no try/catch around
\* the failing await (index.js:260, index.js:283-284).  Under express 4 the
\* rejection is unhandled, index.js installs no unhandledRejection listener,
\* and Node ends the process; under express 5 the request is answered 500.
unhandledRejection(q, build) ==
  IF build = "express5"
  THEN [q |-> respond(q, 500, "Internal Server Error"), calls |-> <<>>]
  ELSE [q |-> [q EXCEPT !.pc = "crashed"], calls |-> <<>>]

\* faulty variant: the invoice branch has no try/catch of its own
handlerCatch_noInvoiceTry(q, build) ==
  IF q.kind = "test"
  THEN [q |-> respond(q, 500, "success:false"), calls |-> <<Err("Test failed")>>]
  ELSE unhandledRejection(q, build)

\* The route handler resumes with an exception at the call it awaited: /test
\* catches it (index.js:222-228), the invoice branch catches it
\* (index.js:267-269); elsewhere it leaves the handler.
handlerCatch(q, build) ==
  CASE q.kind = "test" ->
         [q |-> respond(q, 500, "success:false"), calls |-> <<Err("Test failed")>>]
    [] q.kind = "webhook" /\ q.evtype = "invoice.payment_failed" ->
         [q |-> respond(q, 200, "received:true"),
          calls |-> <<Err("Error processing invoice payment failure")>>]
    [] OTHER -> unhandledRejection(q, build)

\* index.js:216-221 and index.js:287  the handler's end after both helpers
handlerFinish(q) ==
  IF q.kind = "test"
  THEN [q |-> respond(q, 200, "success:true"),
        calls |-> <<Info("Test completed successfully")>>]
  ELSE [q |-> respond(q, 200, "received:true"), calls |-> <<>>]

\* the step's effect on the process, on the shared buffer and on slot r; a
\* process that ended takes its memory, the log buffer included, with it
Commit(r, res) ==
  LET L == addLogs([buf |-> logs, n |-> appended], res.calls)
      counted == [res.q EXCEPT
                    !.nlog = [lv \in {"info", "warn", "error"} |->
                                @[lv] + CountLevel(res.calls, lv)]]
  IN /\ proc' = IF res.q.pc = "crashed" THEN "crashed" ELSE proc
     /\ logs' = IF res.q.pc = "crashed" THEN <<>> ELSE L.buf
     /\ appended' = L.n
     /\ rq' = [rq EXCEPT ![r] = counted]

\* ------------------------------------------------------------- actions
\* what the installed nodemailer package exports: the published package, or
\* one that also answers to the name index.js:15 uses
NodemailerPublished == {"createTransport", "createTestAccount", "getTestMessageUrl"}
NodemailerBuilds == {NodemailerPublished, NodemailerPublished \cup {"createTransporter"}}

\* index.js:1-28  the module body up to `let logs = []`.  index.js:15 calls
\* nodemailer.createTransporter: where the package does not export it the
\* call throws a TypeError, the module never loads and the process is dead.
LoadModule ==
  /\ proc = "loading"
  /\ \E exports \in NodemailerBuilds :
       proc' = IF "createTransporter" \in exports THEN "loaded" ELSE "crashed"
  /\ UNCHANGED <<logs, appended, rq>>

listening == proc = "listening"

\* index.js:291-294  the listen callback
Listen ==
  /\ proc = "loaded"
  /\ proc' = "listening"
  /\ LET L == addLogs([buf |-> logs, n |-> appended],
                      << Info("Stripe Failed Payments Monitor started"),
                         Info("Ready to monitor failed payments and send alerts") >>)
     IN logs' = L.buf /\ appended' = L.n
  /\ UNCHANGED rq

\* faulty variant: the page is one entry too long
getLogs_offByOne(buf) == [logs |-> SliceLast(buf, LogsPage + 1), total |-> Len(buf)]

\* index.js:192-195  the body of the GET /logs response
getLogs(buf) == [logs |-> SliceLast(buf, LogsPage), total |-> Len(buf)]

\* index.js:191-196  GET /logs
GetLogs(r) ==
  /\ listening
  /\ LET body == getLogs(logs)
         q == [IdleReq EXCEPT !.kind = "logs", !.rlogs = body.logs,
                              !.rtotal = body.total, !.cum = appended,
                              !.buflen = Len(logs)]
     IN rq' = [rq EXCEPT ![r] = respond(q, 200, "logs")]
  /\ UNCHANGED <<proc, logs, appended>>

\* index.js:199-213  POST /test up to the await inside sendEmailAlert.
\* index.js:205: customerEmail is ALERT_EMAIL || GMAIL_USER of the process
\* environment as read at this request, undefined when neither is set.
TestRequest(r) ==
  /\ listening
  /\ \E email \in {"present", "absent"} :
       LET q == [IdleReq EXCEPT !.kind = "test", !.customerEmail = email]
       IN Commit(r, [q |-> sendEmailAlert_begin(q),
                     calls |-> <<Info("Manual test initiated")>>])

EventTypes == {"payment_intent.payment_failed", "invoice.payment_failed",
               "charge.failed", "customer.created"}

\* index.js:256-287  the /webhook handler from a verified event to its first
\* await or its response.  flag: the payment intent has a customer / the
\* invoice has a payment_intent / the charge has a billing email.
webhookDispatch(q, flag) ==
  LET received == <<Info("Received webhook event")>>
  IN CASE q.evtype = "payment_intent.payment_failed" ->
            LET p == processFailedPayment_begin(q, flag)
            IN [q |-> p.q, calls |-> received \o p.calls]
       [] q.evtype = "invoice.payment_failed" ->
            IF flag
            THEN [q |-> Call(q, "paymentIntents.retrieve", "await_pi"),
                  calls |-> received]
            ELSE [q |-> respond(q, 200, "received:true"), calls |-> received]
       [] q.evtype = "charge.failed" ->
            [q |-> sendEmailAlert_begin(
                     [q EXCEPT !.customerEmail = IF flag THEN "present" ELSE "absent"]),
             calls |-> received]
       [] OTHER ->
            [q |-> respond(q, 200, "received:true"), calls |-> received]

\* faulty variant: the level argument is left out, so the entry is logged at info
webhookRejected_defaultLevel(q) ==
  [q |-> respond(q, 400, "Webhook Error"),
   calls |-> <<Info("Webhook signature verification failed")>>]

\* index.js:249-254  constructEvent threw
webhookRejected(q) ==
  [q |-> respond(q, 400, "Webhook Error"),
   calls |-> <<Err("Webhook signature verification failed")>>]

\* index.js:245-288  POST /webhook: the body parsers, then the handler up to
\* its first await.  sdk is what stripe.webhooks.constructEvent does with the
\* body and the signature header: it throws, or returns an event of a type.
\* The SDK is an outside collaborator, so its verdict is the environment's
\* choice here and is not derived from req.body; what the handler hands it
\* is recorded in the slot (ctype, body).
WebhookRequest(r) ==
  /\ listening
  /\ \E ctype \in ContentTypes, sdk \in {"throw"} \cup EventTypes, flag \in BOOLEAN :
       LET req == webhookMiddleware(NewRequest(ctype))
           q == [IdleReq EXCEPT !.kind = "webhook", !.ctype = ctype,
                                !.body = req.body]
       IN IF sdk = "throw"
          THEN Commit(r, webhookRejected(q))
          ELSE Commit(r, webhookDispatch(
                           [q EXCEPT !.verified = TRUE, !.evtype = sdk], flag))

Awaiting(r, pc) == listening /\ rq[r].pc = pc /\ ~rq[r].hung

\* index.js:265-269  stripe.paymentIntents.retrieve settles; its rejection
\* resumes the route handler, which awaits it directly, in its catch
PaymentIntentReturns(r) ==
  /\ Awaiting(r, "await_pi")
  /\ \E ok \in BOOLEAN, hasCustomer \in BOOLEAN :
       LET q1 == Returned(rq[r], "paymentIntents.retrieve", IF ok THEN "ok" ELSE "fail")
       IN IF ok
          THEN Commit(r, processFailedPayment_begin(q1, hasCustomer))
          ELSE \E build \in ExpressBuilds : Commit(r, handlerCatch(q1, build))

\* index.js:118-128  stripe.customers.retrieve settles
CustomerReturns(r) ==
  /\ Awaiting(r, "await_customer")
  /\ \E outcome \in CustomerOutcomes :
       Commit(r, processFailedPayment_lookup(rq[r], outcome))

\* index.js:62-67  sendMail settled: sendEmailAlert resumes, logs and returns
\* (or lets an exception out); its caller, suspended at
\* `await sendEmailAlert(..)`, has not resumed yet
sendEmailAlert_resume(q, ok) ==
  LET q1 == Returned(q, "sendMail", IF ok THEN "ok" ELSE "fail")
      m == sendEmailAlert_end(ok)
  IN [q |-> [q1 EXCEPT !.pc = IF m.threw THEN "mail_thrown" ELSE "mail_returned"],
      calls |-> m.calls]

SendMailSettles(r, ok) ==
  /\ Awaiting(r, "await_mail")
  /\ Commit(r, sendEmailAlert_resume(rq[r], ok))

SendMailReturns(r) == \E ok \in BOOLEAN : SendMailSettles(r, ok)

\* faulty variant: the store write is skipped after a failed mail send
afterSendEmailAlert_skipOnFail(q) ==
  IF InTraceOf(q.trace, <<"sendMail", "fail">>)
  THEN [q |-> [q EXCEPT !.pc = "store_returned"], calls |-> <<>>]
  ELSE [q |-> logToAirtable_begin(q), calls |-> <<>>]

\* faulty variant: logToAirtable is called without await, the caller goes on at once
afterSendEmailAlert_noAwait(q) ==
  [q |-> [logToAirtable_begin(q) EXCEPT !.pc = "store_returned"], calls |-> <<>>]

\* index.js:128-131 / 213-214 / 283-284  the caller of sendEmailAlert resumes
\* and calls logToAirtable, which runs up to its await
afterSendEmailAlert(q) == [q |-> logToAirtable_begin(q), calls |-> <<>>]

\* the helpers were called from processFailedPayment (index.js:260 / 266),
\* not from the route handler itself (index.js:213-214 / 283-284)
ViaProcessFailedPayment(q) ==
  q.kind = "webhook"
  /\ q.evtype \in {"payment_intent.payment_failed", "invoice.payment_failed"}

\* the caller of a helper resumes with the helper's exception:
\* processFailedPayment has no try/catch around its two calls
\* (index.js:128-131) and rejects in turn, the route handler still suspended
\* at `await processFailedPayment(..)`; the route handler itself is in its
\* catch, if it has one
helperRejected(q, build) ==
  IF ViaProcessFailedPayment(q)
  THEN [q |-> [q EXCEPT !.pc = "process_thrown"], calls |-> <<>>]
  ELSE handlerCatch(q, build)

SendEmailAlertReturns(r) ==
  /\ listening
  /\ rq[r].pc \in {"mail_returned", "mail_thrown"}
  /\ IF rq[r].pc = "mail_returned"
     THEN Commit(r, afterSendEmailAlert(rq[r]))
     ELSE \E build \in ExpressBuilds : Commit(r, helperRejected(rq[r], build))

\* index.js:84-101  create settled: logToAirtable resumes, logs and returns
\* (or lets an exception out); its caller, suspended at
\* `await logToAirtable(..)`, has not resumed yet
logToAirtable_resume(q, outcome) ==
  LET q1 == Returned(q, "create", outcome)
      s == logToAirtable_end(outcome)
  IN [q |-> [q1 EXCEPT !.pc = IF s.threw THEN "store_thrown" ELSE "store_returned"],
      calls |-> s.calls]

CreateSettles(r, outcome) ==
  /\ Awaiting(r, "await_store")
  /\ Commit(r, logToAirtable_resume(rq[r], outcome))

CreateReturns(r) == \E outcome \in StoreOutcomes : CreateSettles(r, outcome)

\* index.js:131-132 / 214-221 / 284-287  the caller of logToAirtable resumes:
\* processFailedPayment returns to the route handler still suspended at
\* `await processFailedPayment(..)`; the route handler itself ends
afterLogToAirtable(q) ==
  IF ViaProcessFailedPayment(q)
  THEN [q |-> [q EXCEPT !.pc = "process_returned"], calls |-> <<>>]
  ELSE handlerFinish(q)

LogToAirtableReturns(r) ==
  /\ listening
  /\ rq[r].pc \in {"store_returned", "store_thrown"}
  /\ IF rq[r].pc = "store_returned"
     THEN Commit(r, afterLogToAirtable(rq[r]))
     ELSE \E build \in ExpressBuilds : Commit(r, helperRejected(rq[r], build))

\* index.js:260 / 266 then 287  the route handler resumes after
\* processFailedPayment returned, and responds; after it rejected, the
\* route handler resumes with its exception
ProcessFailedPaymentReturns(r) ==
  /\ listening
  /\ rq[r].pc \in {"process_returned", "process_thrown"}
  /\ IF rq[r].pc = "process_returned"
     THEN Commit(r, handlerFinish(rq[r]))
     ELSE \E build \in ExpressBuilds : Commit(r, handlerCatch(rq[r], build))

\* a helper returned and its caller has yet to resume
ResumePcs == {"mail_returned", "store_returned", "process_returned"}

AwaitPcs == {"await_pi", "await_customer", "await_mail", "await_store"}

\* no timeout is set on any outbound call: the awaited call never settles.
\* Spec has no fairness, so there a call may stay pending for ever as it is;
\* SpecLive, which makes calls settle, takes this step to let one hang.
Hang(r) ==
  /\ listening
  /\ rq[r].pc \in AwaitPcs
  /\ ~rq[r].hung
  /\ rq' = [rq EXCEPT ![r].hung = TRUE]
  /\ UNCHANGED <<proc, logs, appended>>

\* ------------------------------------------------------------- specifications
\* slots are taken in order: which free slot serves a request is immaterial
Free(r) == rq[r].pc = "idle" /\ (IF r = 1 THEN TRUE ELSE rq[r - 1].pc # "idle")

\* what slot r can do next
Serve(r) ==
  \/ Free(r) /\ GetLogs(r)
  \/ Free(r) /\ TestRequest(r)
  \/ Free(r) /\ WebhookRequest(r)
  \/ PaymentIntentReturns(r)
  \/ CustomerReturns(r)
  \/ SendMailReturns(r)
  \/ SendEmailAlertReturns(r)
  \/ CreateReturns(r)
  \/ LogToAirtableReturns(r)
  \/ ProcessFailedPaymentReturns(r)

Next == LoadModule \/ Listen \/ \E r \in Slots : Serve(r)

Spec == Init /\ [][Next]_vars

\* The buffer under sustained load.  Slot 1 carries a steady stream of
\* POST /test whose outbound calls succeed, one request after the other (a
\* finished slot takes the next request), until MaxAppends entries were
\* appended.  While the buffer is about to overflow (InBurst) the other slots
\* take requests of any kind, whose outbound calls settle either way, so that
\* their jobs interleave with those of the request in flight on slot 1; a new
\* request of the stream waits for them to finish.  GET /logs is read on slot
\* 1 between two requests of the stream.
Reusable(r) == rq[r].pc \in {"idle", "done"}

BurstSlots == Slots \ {1}

InBurst == appended = LogCap - BurstBefore

Quiet == \A r \in BurstSlots : Reusable(r)

\* what a burst slot can do next
Burst(r) ==
  \/ InBurst /\ Reusable(r) /\ GetLogs(r)
  \/ InBurst /\ Reusable(r) /\ TestRequest(r)
  \/ InBurst /\ Reusable(r) /\ WebhookRequest(r)
  \/ PaymentIntentReturns(r)
  \/ CustomerReturns(r)
  \/ SendMailReturns(r)
  \/ SendEmailAlertReturns(r)
  \/ CreateReturns(r)
  \/ LogToAirtableReturns(r)
  \/ ProcessFailedPaymentReturns(r)

NextLog ==
  \/ LoadModule
  \/ Listen
  \/ Reusable(1) /\ GetLogs(1)
  \/ Reusable(1) /\ Quiet /\ appended < MaxAppends /\ TestRequest(1)
  \/ SendMailSettles(1, TRUE)
  \/ SendEmailAlertReturns(1)
  \/ CreateSettles(1, "ok")
  \/ LogToAirtableReturns(1)
  \/ \E r \in BurstSlots : Burst(r)

SpecLog == Init /\ [][NextLog]_vars

\* One request from arrival to response.  Every handler continuation that is
\* ready runs, and an outbound call that is not hung settles: Node's event
\* loop starves no callback.
NextLive == LoadModule \/ Listen \/ Serve(1) \/ Hang(1)

Fairness ==
  /\ WF_vars(PaymentIntentReturns(1))
  /\ WF_vars(CustomerReturns(1))
  /\ WF_vars(SendMailReturns(1))
  /\ WF_vars(CreateReturns(1))
  /\ WF_vars(SendEmailAlertReturns(1))
  /\ WF_vars(LogToAirtableReturns(1))
  /\ WF_vars(ProcessFailedPaymentReturns(1))

SpecLive == Init /\ [][NextLive]_vars /\ Fairness

\* ------------------------------------------------------------- observations
InTrace(q, ev) == InTraceOf(q.trace, ev)
IsCall(e) == e[2] = "call"
IsSettle(e) == e[2] # "call"
NCalls(q, op) == Len(SelectSeq(q.trace, LAMBDA e : e = <<op, "call">>))
\* outbound calls of the request that have not settled
Pending(q) == Len(SelectSeq(q.trace, IsCall)) - Len(SelectSeq(q.trace, IsSettle))
\* the Notifier and Record Logger events of the request, in order
IsFanOut(e) == e[1] \in {"sendMail", "create"}
FanOut(q) == SelectSeq(q.trace, IsFanOut)
Verified(q) == q.kind = "webhook" /\ q.verified
Acked(q) ==
  q.pc = "done" /\ q.status = 200 /\ q.rbody = "received:true" /\ q.nresp = 1
HasLog(message) == \E i \in 1..Len(logs) : logs[i].message = message

\* ------------------------------------------------------------- claims

\* C1: a webhook whose signature verification succeeded is answered with
\* HTTP 200 {received:true}, whatever the event type and whatever the outcome
\* of the customer lookup, the payment-intent fetch, the mail send and the
\* store write: while the handler is suspended nothing was sent, and
\* otherwise the one response sent is the acknowledgement.
C1_VerifiedAlwaysAcked ==
  \A r \in Slots :
    Verified(rq[r]) =>
      IF rq[r].pc \in AwaitPcs \cup ResumePcs THEN rq[r].nresp = 0 /\ rq[r].status = 0
      ELSE Acked(rq[r])

C1_Witness ==
  \E r \in Slots :
    /\ Verified(rq[r]) /\ Acked(rq[r])
    /\ InTrace(rq[r], <<"customers.retrieve", "fail">>)
    /\ InTrace(rq[r], <<"sendMail", "fail">>)
    /\ InTrace(rq[r], <<"create", "fail_NOT_FOUND">>)

\* C2: a webhook whose signature verification failed is answered with HTTP
\* 400, records exactly one log entry, at error level, and makes no Notifier
\* call, no Record Logger call and no provider lookup.
C2_RejectedDoesNothing ==
  \A r \in Slots :
    (rq[r].kind = "webhook" /\ ~rq[r].verified) =>
      /\ rq[r].pc = "done" /\ rq[r].status = 400 /\ rq[r].nresp = 1
      /\ rq[r].nlog = [info |-> 0, warn |-> 0, error |-> 1]
      /\ rq[r].trace = <<>>
      /\ rq[r].mailArg = "none" /\ rq[r].storeArg = "none"

C2_Witness ==
  \E r \in Slots :
    /\ rq[r].kind = "webhook" /\ ~rq[r].verified /\ rq[r].status = 400
    /\ HasLog("Webhook signature verification failed")

\* C3: the log buffer never holds more than 100 entries, and it holds the
\* most recently appended ones in append order: entry i of the buffer is
\* append number (appended - length + i).
C3_BufferIsLastHundred ==
  /\ Len(logs) <= LogCap
  /\ Len(logs) = Min(appended, LogCap)
  /\ \A i \in 1..Len(logs) : logs[i].timestamp = appended - Len(logs) + i

\* C3 witness: 150 appends were made and the buffer is appends 51..150; among
\* them is the creation-failure burst of a second request (the error and its
\* ten guidance lines) that carried the buffer past 100 entries, directly
\* followed by the entry of the request that was in flight on slot 1 meanwhile.
C3_Witness ==
  /\ appended = 150
  /\ Len(logs) = 100
  /\ logs[1].timestamp = 51
  /\ logs[100].timestamp = 150
  /\ \E r \in BurstSlots : rq[r].kind = "test" /\ rq[r].nlog.warn = 10
  /\ \E i \in 1..(Len(logs) - 11) :
       /\ logs[i].level = "error"
       /\ logs[i].message = "Failed to log to Airtable"
       /\ logs[i].timestamp < LogCap
       /\ \A k \in 1..10 : logs[i + k].level = "warn"
       /\ logs[i + 10].timestamp > LogCap
       /\ logs[i + 11].message = "Payment failure logged to Airtable"

\* C4 as stated: GET /logs returns at most 50 entries and a total equal to
\* the cumulative number of entries ever recorded.
C4_TotalIsCumulative ==
  \A r \in Slots :
    (rq[r].kind = "logs" /\ rq[r].pc = "done") =>
      /\ Len(rq[r].rlogs) <= LogsPage
      /\ rq[r].rtotal = rq[r].cum

\* C4 amended: GET /logs returns the most recent min(50, buffer length)
\* entries without modifying the buffer, and a total equal to the buffer
\* length, which is the cumulative count capped at 100.
C4_TotalIsBufferLength ==
  \A r \in Slots :
    (rq[r].kind = "logs" /\ rq[r].pc = "done") =>
      LET q == rq[r]
          k == Len(q.rlogs)
      IN /\ q.status = 200
         /\ k = Min(LogsPage, Min(q.cum, LogCap))
         /\ \A i \in 1..k : q.rlogs[i].timestamp = q.cum - k + i
         /\ q.rtotal = Min(q.cum, LogCap)
         /\ q.buflen = q.rtotal

C4_Witness ==
  \E r \in Slots :
    /\ rq[r].kind = "logs" /\ rq[r].pc = "done"
    /\ rq[r].cum > LogCap
    /\ rq[r].rtotal = LogCap
    /\ Len(rq[r].rlogs) = LogsPage

\* C5: a verified invoice.payment_failed event whose payment-intent fetch
\* threw makes no Notifier call and no Record Logger call, records exactly
\* one error-level entry (beside the info entry of its receipt), and is
\* still answered with HTTP 200.
C5_FetchFailureDropsEvent ==
  \A r \in Slots :
    (Verified(rq[r]) /\ InTrace(rq[r], <<"paymentIntents.retrieve", "fail">>)) =>
      /\ rq[r].evtype = "invoice.payment_failed"
      /\ NCalls(rq[r], "sendMail") = 0 /\ NCalls(rq[r], "create") = 0
      /\ NCalls(rq[r], "customers.retrieve") = 0
      /\ rq[r].mailArg = "none" /\ rq[r].storeArg = "none"
      /\ rq[r].nlog = [info |-> 1, warn |-> 0, error |-> 1]
      /\ Acked(rq[r])

C5_Witness ==
  \E r \in Slots :
    /\ Verified(rq[r]) /\ rq[r].evtype = "invoice.payment_failed"
    /\ rq[r].trace = << <<"paymentIntents.retrieve", "call">>,
                        <<"paymentIntents.retrieve", "fail">> >>
    /\ rq[r].status = 200
    /\ HasLog("Error processing invoice payment failure")

\* C6: when the customer lookup of processFailedPayment fails, one warn
\* entry is recorded for it, customerEmail stays absent, and processing goes
\* on: the Notifier is invoked once with that record and, once it settled,
\* the Record Logger is invoked once with that record.
C6_LookupFailureIsNotFatal ==
  \A r \in Slots :
    InTrace(rq[r], <<"customers.retrieve", "fail">>) =>
      LET q == rq[r]
          guidance == IF InTrace(q, <<"create", "fail_NOT_FOUND">>)
                      THEN Len(AirtableGuidance) ELSE 0
      IN /\ q.customerEmail = "absent"
         /\ q.nlog.warn = 1 + guidance
         /\ q.pc \in {"await_mail", "mail_returned", "await_store",
                      "store_returned", "process_returned", "done"}
         /\ NCalls(q, "sendMail") = 1 /\ q.mailArg = "absent"
         /\ q.pc \in {"await_mail", "mail_returned"} => NCalls(q, "create") = 0
         /\ q.pc \notin {"await_mail", "mail_returned"} =>
              NCalls(q, "create") = 1 /\ q.storeArg = "absent"

C6_Witness ==
  \E r \in Slots :
    /\ InTrace(rq[r], <<"customers.retrieve", "fail">>)
    /\ HasLog("Could not retrieve customer email")
    /\ rq[r].pc = "done"
    /\ rq[r].mailArg = "absent" /\ rq[r].storeArg = "absent"

\* a verified event that reached the dispatch of a failure record
Dispatched(q) ==
  /\ Verified(q)
  /\ \/ q.evtype \in {"payment_intent.payment_failed", "charge.failed"}
     \/ InTrace(q, <<"paymentIntents.retrieve", "ok">>)
  /\ q.pc \notin {"await_pi", "await_customer"}

\* C7: for a verified failure event that reaches dispatch, the Notifier is
\* invoked exactly once and the Record Logger exactly once, the Record Logger
\* only after the Notifier settled; a Notifier failure is logged at error
\* level, is not retried and does not prevent the Record Logger call; at no
\* time are two outbound calls of one request pending.
C7_NotifierThenLoggerOnce ==
  \A r \in Slots :
    LET q == rq[r]
        t == FanOut(q)
    IN /\ Pending(q) \in {0, 1}
       /\ Dispatched(q) =>
            /\ Len(t) \in 1..4
            /\ t[1] = <<"sendMail", "call">>
            /\ Len(t) >= 2 => t[2] \in {<<"sendMail", "ok">>, <<"sendMail", "fail">>}
            /\ Len(t) >= 3 => t[3] = <<"create", "call">>
            /\ Len(t) = 4 => t[4][1] = "create" /\ t[4][2] \in StoreOutcomes
            /\ q.pc = "await_mail" <=> Len(t) = 1
            /\ q.pc = "mail_returned" <=> Len(t) = 2
            /\ q.pc = "await_store" <=> Len(t) = 3
            /\ q.pc \in {"store_returned", "process_returned", "done"} <=> Len(t) = 4
            /\ (Len(t) \in {2, 3} /\ t[2] = <<"sendMail", "fail">>) => q.nlog.error = 1
            /\ (Len(t) \in {2, 3} /\ t[2] = <<"sendMail", "ok">>) => q.nlog.error = 0

C7_Witness ==
  \E r \in Slots :
    /\ Dispatched(rq[r])
    /\ rq[r].pc = "done"
    /\ FanOut(rq[r]) = << <<"sendMail", "call">>, <<"sendMail", "fail">>,
                          <<"create", "call">>, <<"create", "ok">> >>
    /\ HasLog("Failed to send email alert")

\* C8: a verified webhook is acknowledged only when every outbound call of
\* its dispatch chain has settled, and at most once; a request whose awaited
\* call never settles is never answered; and a request none of whose calls
\* hangs is eventually answered exactly once.
C8_AckAfterChain ==
  /\ [](\A r \in Slots :
          /\ rq[r].nresp <= 1
          /\ rq[r].nresp = 1 => (Pending(rq[r]) = 0 /\ rq[r].pc = "done")
          /\ rq[r].hung => (rq[r].nresp = 0 /\ Pending(rq[r]) = 1))
  /\ [][\A r \in Slots : rq[r].hung => rq'[r].hung]_vars
  /\ \A r \in Slots :
       [](rq[r].pc # "idle" => <>(rq[r].nresp = 1 \/ rq[r].hung))

C8_Witness ==
  \E r \in Slots :
    /\ Verified(rq[r]) /\ Acked(rq[r])
    /\ Len(rq[r].trace) = 8
    /\ Pending(rq[r]) = 0

\* C9: on a POST /webhook with a JSON content type the value handed to
\* signature verification is the raw request body.
C9_RawBodyVerified ==
  \A r \in Slots :
    (rq[r].kind = "webhook" /\ rq[r].ctype = "application/json") =>
      rq[r].body = "buffer"

\* C10: POST /test answers HTTP 200 with success:true on every execution,
\* also when the mail send or the store write fails: 'Test completed
\* successfully' is logged, 'Test failed' never is, and no 500 is sent.
C10_TestAlwaysSucceeds ==
  /\ ~HasLog("Test failed")
  /\ \A r \in Slots :
       rq[r].kind = "test" =>
         IF rq[r].pc \in AwaitPcs \cup ResumePcs THEN rq[r].nresp = 0 /\ rq[r].status = 0
         ELSE /\ rq[r].pc = "done" /\ rq[r].nresp = 1
              /\ rq[r].status = 200 /\ rq[r].rbody = "success:true"
              /\ HasLog("Test completed successfully")

C10_Witness ==
  \E r \in Slots :
    /\ rq[r].kind = "test" /\ rq[r].status = 200
    /\ InTrace(rq[r], <<"sendMail", "fail">>)
    /\ InTrace(rq[r], <<"create", "fail">>)
    /\ HasLog("Test completed successfully")
====
